---- MODULE Spec2Model ----
(***************************************************************************)
(* A model of the style compiler of the Vector Tiles Reader QGIS plugin    *)
(* (plugin/style_converter/core/__init__.py): ref resolution, the layer    *)
(* style builder, the scale mapper, the filter compiler, the colour        *)
(* normalizer and the style set compiler process().                        *)
(*                                                                         *)
(* Python values are modelled as follows.  A dict is a function whose      *)
(* DOMAIN is the set of its keys.  A value that may be None is a tagged    *)
(* record (NoneV, IntV(n), StrV(s)), so that None, 0 and "" stay distinct  *)
(* and Python's truthiness can be computed.  A text the code builds by     *)
(* formatting is a sequence of tokens (Text), joined to a string at the    *)
(* end; a token is either one special character or a run of ordinary ones, *)
(* so that character escaping is a map over the tokens.                    *)
(***************************************************************************)
EXTENDS Integers, Sequences, FiniteSets, TLC

\* ------------------------------------------------------------------ bounds

\* Number of layers of an input document.
NLayers == 3
\* The interpreter's recursion limit: the depth of nested calls at which
\* Python raises RecursionError.
RecursionLimit == 6
\* Largest number of stops of one zoom-dependent property.
MaxStops == 2

\* --------------------------------------------------------- Python values

NoneV == [t |-> "none", n |-> 0, s |-> ""]
IntV(n) == [t |-> "int", n |-> n, s |-> ""]
StrV(s) == [t |-> "str", n |-> 0, s |-> s]
IsNone(v) == v.t = "none"

\* bool(v): None, 0 and "" are false.
Truthy(v) == (v.t = "int" /\ v.n # 0) \/ (v.t = "str" /\ v.s # "")

\* The empty dict.
EmptyDict == [k \in {} |-> NoneV]

\* str(v) for the values the code formats.
PyStr(v) == IF v.t = "int" THEN ToString(v.n) ELSE IF v.t = "str" THEN v.s ELSE "None"

RECURSIVE JoinWith(_, _)
\* sep.join(parts), parts a sequence of strings.
JoinWith(sep, parts) ==
    IF parts = <<>> THEN ""
    ELSE IF Len(parts) = 1 THEN parts[1]
    ELSE parts[1] \o sep \o JoinWith(sep, Tail(parts))

\* The smallest element of a non-empty set of integers.
MinOf(S) == CHOOSE x \in S : \A y \in S : x <= y

\* The first exception among a sequence of results, "" if none.
FirstError(results) ==
    LET bad == {k \in 1..Len(results) : results[k].err # ""}
    IN  IF bad = {} THEN "" ELSE results[MinOf(bad)].err

RECURSIVE SortedSeq(_)
\* sorted(S), S a finite set of integers.
SortedSeq(S) == IF S = {} THEN <<>> ELSE <<MinOf(S)>> \o SortedSeq(S \ {MinOf(S)})

\* ------------------------------------------------------------ scale mapper

MaxZoom == 24

\* upper_bound_map_scales_by_zoom_level
UpperBoundMapScales ==
    <<1000000000, 1000000000, 500000000, 200000000, 50000000, 25000000,
      12500000, 6500000, 3000000, 1500000, 750000, 400000, 200000, 100000,
      50000, 25000, 12500, 5000, 2500, 1500, 750, 500, 250, 100, 0>>

\* upper_bound_map_scales_by_zoom_level[z]; a zoom outside 0..24 is a KeyError.
ScaleOfZoom(z) == UpperBoundMapScales[z + 1]

\* -------------------------------------------------------- colour normalizer

\* A colour literal after lexing: fmt "hex" is '#' followed by digits (a
\* sequence of one-character strings); fmt "rgb"/"rgba" is the function form
\* with integer channels and, for rgba, the alpha in hundredths as 4th entry.
HexColor(digits) == [fmt |-> "hex", digits |-> digits, comps |-> <<>>]
RgbaColor(r, g, b, a100) == [fmt |-> "rgba", digits |-> <<>>, comps |-> <<r, g, b, a100>>]

HexDigitValue ==
    [c \in {"0", "1", "2", "3", "4", "5", "6", "7", "8", "9",
            "a", "b", "c", "d", "e", "f", "A", "B", "C", "D", "E", "F"} |->
        CASE c = "0" -> 0 [] c = "1" -> 1 [] c = "2" -> 2 [] c = "3" -> 3
          [] c = "4" -> 4 [] c = "5" -> 5 [] c = "6" -> 6 [] c = "7" -> 7
          [] c = "8" -> 8 [] c = "9" -> 9
          [] c \in {"a", "A"} -> 10 [] c \in {"b", "B"} -> 11
          [] c \in {"c", "C"} -> 12 [] c \in {"d", "D"} -> 13
          [] c \in {"e", "E"} -> 14 [] c \in {"f", "F"} -> 15]

\* bytearray.fromhex(digits): one byte per pair of digits; an odd number of
\* digits is a ValueError (not a sequence: the caller tests FromHexFails).
FromHexFails(digits) == Len(digits) % 2 = 1
FromHex(digits) ==
    [k \in 1..(Len(digits) \div 2) |->
        16 * HexDigitValue[digits[2 * k - 1]] + HexDigitValue[digits[2 * k]]]

\* "".join(map(lambda c: c + c, color))
DoubleDigits(digits) == [k \in 1..(2 * Len(digits)) |-> digits[(k + 1) \div 2]]

\* "".join(digits)
RECURSIVE Concat(_)
Concat(parts) == IF parts = <<>> THEN "" ELSE parts[1] \o Concat(Tail(parts))

\* round(255.0 * a) for a = a100 / 100: Python rounds a half to even.
RoundAlpha(a100) ==
    LET num == 255 * a100
        q == num \div 100
        r == num % 100
    IN  IF r > 50 \/ (r = 50 /\ q % 2 = 1) THEN q + 1 ELSE q

\* _get_color_string for rgb(...) and rgba(...): the channels as given, the
\* alpha (1 when absent) times 255, rounded.
GetColorString(color) ==
    LET has_alpha == color.fmt = "rgba"
        a100 == IF has_alpha THEN color.comps[4] ELSE 100
    IN  JoinWith(",", <<ToString(color.comps[1]), ToString(color.comps[2]),
                        ToString(color.comps[3]), ToString(RoundAlpha(a100))>>)

\* The decimal string of the bytes of a hex colour, 3 digits being doubled.
HexToCsv(digits) ==
    LET bytes == FromHex(IF Len(digits) = 3 THEN DoubleDigits(digits) ELSE digits)
    IN  JoinWith(",", [k \in 1..Len(bytes) |-> ToString(bytes[k])])

\* parse_color on a colour literal.  Result: [err, value].
ParseColor(color) ==
    IF color.fmt = "hex"
    THEN IF Len(color.digits) = 6
         THEN [err |-> "", value |-> "#" \o Concat(color.digits)]
         ELSE IF Len(color.digits) # 3 /\ FromHexFails(color.digits)
              THEN [err |-> "ValueError", value |-> ""]
              ELSE [err |-> "", value |-> HexToCsv(color.digits)]
    ELSE [err |-> "", value |-> GetColorString(color)]

\* ----------------------------------------------------------------- texts

\* xml_helper.escape_xml on one token: the markup's special characters are
\* replaced by their entities.
EscapeToken(tok) ==
    CASE tok = "&" -> "&amp;"
      [] tok = "<" -> "&lt;"
      [] tok = ">" -> "&gt;"
      [] tok = "\"" -> "&quot;"
      [] tok = "'" -> "&apos;"
      [] OTHER -> tok

\* xml_helper.escape_xml on a text.
EscapeXml(text) == [k \in 1..Len(text) |-> EscapeToken(text[k])]

RECURSIVE JoinText(_, _)
\* sep.join(parts) on texts.
JoinText(sep, parts) ==
    IF parts = <<>> THEN <<>>
    ELSE IF Len(parts) = 1 THEN parts[1]
    ELSE parts[1] \o sep \o JoinText(sep, Tail(parts))

\* '"{}"'.format(name)
DoubleQuoted(name) == <<"\"", name, "\"">>
\* "'{}'".format(value)
SingleQuoted(value) == <<"'", value, "'">>

\* --------------------------------------------------------- filter compiler

\* A filter [op, ...]: a comparison or existence test uses attr and value, a
\* combination holds its sub-filters in args, a membership test its values.
Filter(op, attr, value, args) == [op |-> op, attr |-> attr, value |-> value, args |-> args]

\* _comparision_operators
ComparisionOperators ==
    [op \in {"match", "==", "<=", ">=", "<", ">", "!="} |->
        CASE op \in {"match", "=="} -> <<"=">>
          [] op = "<=" -> <<"<", "=">>
          [] op = ">=" -> <<">", "=">>
          [] op = "<" -> <<"<">>
          [] op = ">" -> <<">">>
          [] op = "!=" -> <<"!=">>]

\* _combining_operators
CombiningOperators ==
    [op \in {"all", "any", "none"} |->
        CASE op = "all" -> "and" [] op = "any" -> "or" [] op = "none" -> "and not"]

\* _membership_operators
MembershipOperators == [op \in {"in", "!in"} |-> IF op = "in" THEN "in" ELSE "not in"]

\* _existential_operators
ExistentialOperators ==
    [op \in {"has", "!has"} |-> IF op = "has" THEN "is not null" ELSE "is null"]

\* attr.startswith("@"): the pseudo-variables of the compiler.
StartsWithAt(attr) == attr \in {"@map_scale"}

\* What a compile step returns: an exception, None, or a text.
Raised(e) == [err |-> e, none |-> FALSE, toks |-> <<>>]
NoPredicate == [err |-> "", none |-> TRUE, toks |-> <<>>]
TextOf(toks) == [err |-> "", none |-> FALSE, toks |-> toks]

\* _get_comparision_expr
GetComparisionExpr(f) ==
    IF f.attr = "$type" THEN NoPredicate
    ELSE LET op == ComparisionOperators[f.op]
             attr == IF StartsWithAt(f.attr) THEN <<f.attr>> ELSE DoubleQuoted(f.attr)
             null == IF op = <<"!=">>
                     THEN attr \o <<" is null or ">> \o attr
                     ELSE attr \o <<" is not null and ">> \o attr
         IN  TextOf(null \o <<" ">> \o op \o <<" ">> \o SingleQuoted(f.value))

\* _get_membership_expr
GetMembershipExpr(f) ==
    LET what == DoubleQuoted(f.attr)
        coll == <<"(">> \o JoinText(<<", ">>, [k \in 1..Len(f.args) |-> SingleQuoted(f.args[k])])
                        \o <<")">>
        null == IF f.op = "!in" THEN "is null or" ELSE "is not null and"
    IN  TextOf(<<"(">> \o what \o <<" ", null, " ">> \o what
                  \o <<" ", MembershipOperators[f.op], " ">> \o coll \o <<")">>)

\* _get_existential_expr
GetExistentialExpr(f) ==
    TextOf(<<"attribute($currentfeature, ">> \o SingleQuoted(f.attr)
              \o <<") ", ExistentialOperators[f.op]>>)

\* The sub-results that are not None, in order.
RECURSIVE DropNone(_)
DropNone(rs) ==
    IF rs = <<>> THEN <<>>
    ELSE IF rs[1].none THEN DropNone(Tail(rs))
    ELSE <<rs[1].toks>> \o DropNone(Tail(rs))

\* The combination branch of get_qgis_rule, given the compiled sub-filters.
CombineExprs(op, subs) ==
    LET all_exprs == DropNone(subs)
        comb_op == CombiningOperators[op]
        wrapped == IF comb_op = "and" /\ Len(all_exprs) > 1
                   THEN [k \in 1..Len(all_exprs) |-> <<"(">> \o all_exprs[k] \o <<")">>]
                   ELSE all_exprs
        full_expr == JoinText(<<" ", comb_op, " ">>, wrapped)
    IN  IF op = "none" THEN <<"not ">> \o full_expr ELSE full_expr

\* Lines 636-641: a result that is not empty is escaped when asked for.
Escaped(result, escape_result) ==
    IF result.err = "" /\ ~result.none /\ Concat(result.toks) # "" /\ escape_result
    THEN TextOf(EscapeXml(result.toks))
    ELSE result

\* The combination branch, an exception of a sub-filter being passed on.
Combined(op, subs) ==
    IF FirstError(subs) # "" THEN Raised(FirstError(subs)) ELSE TextOf(CombineExprs(op, subs))

RECURSIVE GetQgisRule(_, _)
\* get_qgis_rule(mb_filter, escape_result)
GetQgisRule(f, escape_result) ==
    Escaped(IF f.op \in DOMAIN ComparisionOperators THEN GetComparisionExpr(f)
            ELSE IF f.op \in DOMAIN CombiningOperators
            THEN Combined(f.op, [k \in 1..Len(f.args) |-> GetQgisRule(f.args[k], FALSE)])
            ELSE IF f.op \in DOMAIN MembershipOperators THEN GetMembershipExpr(f)
            ELSE IF f.op \in DOMAIN ExistentialOperators THEN GetExistentialExpr(f)
            ELSE Raised("NotImplementedError"),
            escape_result)

\* A compiled rule as the value process() stores in a band: None or a string.
RuleValue(r) == IF r.none THEN NoneV ELSE StrV(Concat(r.toks))

\* ------------------------------------------------ match colour expressions

\* An item of a colour that is an array: a string (the operator, a label),
\* the expression ["get", attr] (s is attr), or a colour literal (c).
StrItem(s) == [kind |-> "str", s |-> s, c |-> HexColor(<<>>)]
GetItem(attr) == [kind |-> "get", s |-> attr, c |-> HexColor(<<>>)]
ColorItem(c) == [kind |-> "color", s |-> "", c |-> c]

\* A colour that is an array of items.
ListColor(items) == [fmt |-> "list", digits |-> <<>>, comps |-> <<>>, items |-> items]

\* The value parse_color returns for an array that is no match expression.
UnknownColor == "255,0,0,0"

\* parse_color on one item of a match array: a colour literal is normalized,
\* ["get", attr] is an array that is no match expression, and a label is no
\* colour (float() fails on it).
ParseColorItem(item) ==
    IF item.kind = "color" THEN ParseColor(item.c)
    ELSE IF item.kind = "get" THEN [err |-> "", value |-> UnknownColor]
    ELSE [err |-> "ValueError", value |-> ""]

\* The condition as format() prints it: None when there is no predicate.
ComparisionText(r) == IF r.none THEN "None" ELSE Concat(r.toks)

\* If.dumps(), else_dump being what lines 651-657 computed.
IfDumps(comparision, if_value, else_dump) ==
    "if (" \o comparision \o ", '" \o if_value \o "', " \o else_dump \o ")"

\* An else-branch that is always the empty string.
FallbackOmitted(fallback) == "\"\""

\* else_dump of the last If, whose else_if is the fallback string: "" when
\* the string is empty.
FallbackDump(fallback) == IF fallback # "" THEN "'" \o fallback \o "'" ELSE "\"\""

RECURSIVE DumpsFrom(_, _, _, _)
\* dumps() of the k-th If of the chain _get_match_expr builds.
DumpsFrom(conds, outputs, fallback, k) ==
    IfDumps(conds[k], outputs[k],
            IF k = Len(conds) THEN FallbackDump(fallback)
            ELSE DumpsFrom(conds, outputs, fallback, k + 1))

\* The conditions of the labels match[2:-1:2], match[1] being ["get", attr].
MatchConditions(match) ==
    [k \in 1..((Len(match) - 3) \div 2) |->
        ComparisionText(GetComparisionExpr(
            Filter(match[1].s, match[2].s, match[2 * k + 1].s, <<>>)))]

\* The parsed outputs match[3::2].
MatchOutputs(match) ==
    [k \in 1..((Len(match) - 3) \div 2) |-> ParseColorItem(match[2 * k + 2])]

\* Lines 677-698, the outputs and the fallback being parsed.
MatchDumps(match, all_outputs, fallback) ==
    IF FirstError(all_outputs) # "" THEN [err |-> FirstError(all_outputs), value |-> ""]
    ELSE IF fallback.err # "" THEN [err |-> fallback.err, value |-> ""]
    ELSE [err |-> "",
          value |-> DumpsFrom(MatchConditions(match),
                              [k \in 1..Len(all_outputs) |-> all_outputs[k].value],
                              fallback.value, 1)]

\* _get_match_expr(match).  Result: [err, value].
GetMatchExpr(match) ==
    IF ~(Len(match) >= 4 /\ Len(match) % 2 = 1)
    THEN [err |-> "AssertionError", value |-> ""]
    ELSE IF match[1].s \notin DOMAIN ComparisionOperators
    THEN [err |-> "AssertionError", value |-> ""]
    ELSE MatchDumps(match, MatchOutputs(match), ParseColorItem(match[Len(match)]))

\* parse_color(color): an array, or a colour literal.  Result: [err, value].
ParseColorExpr(color) ==
    IF color.fmt # "list" THEN ParseColor(color)
    ELSE IF color.items = <<>> THEN [err |-> "IndexError", value |-> ""]
    ELSE IF color.items[1].s # "match" THEN [err |-> "", value |-> UnknownColor]
    ELSE GetMatchExpr(color.items)

\* ------------------------------------------------------ zoom-stops resolver

\* A property value of a paint or layout mapping: a literal, or a dict with
\* "stops" (a sequence of [zoom, value], empty when the dict has none) and an
\* optional "base" (NoneV when absent).  lit and the stops' values are colour literals for
\* the colour properties and tagged values otherwise.
PropLit(v) == [isdict |-> FALSE, lit |-> v, stops |-> <<>>, base |-> NoneV]
PropStops(stops, base) == [isdict |-> TRUE, lit |-> NoneV, stops |-> stops, base |-> base]
Stop(z, v) == [zoom |-> z, value |-> v]

\* One call of get_properties_values_for_zoom in get_styles: the property
\* path and the flags.  has_default tells whether a default is passed.
PropertyCall(group, name, is_color, can_interpolate, has_default, default) ==
    [group |-> group, name |-> name, is_color |-> is_color,
     can_interpolate |-> can_interpolate, has_default |-> has_default, default |-> default]

\* The calls get_styles makes for each layer type, in order.  The calls for
\* the expression properties (fill-pattern, icon-image, text-field) are left
\* out: no document of the model sets them, and for an absent path without
\* default get_properties_values_for_zoom returns no value.
PropertyCalls(layer_type) ==
    CASE layer_type = "fill" ->
           << PropertyCall("paint", "fill-color", TRUE, FALSE, TRUE, RgbaColor(0, 0, 0, 0)),
              PropertyCall("paint", "fill-outline-color", TRUE, FALSE, FALSE, NoneV),
              PropertyCall("paint", "fill-translate", FALSE, FALSE, FALSE, NoneV),
              PropertyCall("paint", "fill-opacity", FALSE, FALSE, FALSE, NoneV) >>
      [] layer_type = "line" ->
           << PropertyCall("layout", "line-join", FALSE, FALSE, FALSE, NoneV),
              PropertyCall("layout", "line-cap", FALSE, FALSE, FALSE, NoneV),
              PropertyCall("paint", "line-width", FALSE, TRUE, TRUE, IntV(0)),
              PropertyCall("paint", "line-color", TRUE, FALSE, TRUE, RgbaColor(0, 0, 0, 0)),
              PropertyCall("paint", "line-opacity", FALSE, FALSE, FALSE, NoneV),
              PropertyCall("paint", "line-dasharray", FALSE, FALSE, FALSE, NoneV) >>
      [] layer_type = "symbol" ->
           << PropertyCall("layout", "text-font", FALSE, FALSE, FALSE, NoneV),
              PropertyCall("layout", "text-transform", FALSE, FALSE, FALSE, NoneV),
              PropertyCall("layout", "text-size", FALSE, TRUE, FALSE, NoneV),
              PropertyCall("layout", "text-max-width", FALSE, FALSE, FALSE, NoneV),
              PropertyCall("paint", "text-color", TRUE, FALSE, FALSE, NoneV),
              PropertyCall("paint", "text-halo-width", FALSE, TRUE, FALSE, NoneV),
              PropertyCall("paint", "text-halo-color", TRUE, FALSE, FALSE, NoneV) >>
      [] OTHER -> <<>>

\* One resolved value (the dicts get_properties_values_for_zoom appends).
PropertyValue(name, zoom_level, value, is_qgis_expr) ==
    [name |-> name, zoom_level |-> zoom_level, value |-> value, is_qgis_expr |-> is_qgis_expr]

\* The interpolate_exp(...) call built for one pair of stops.
InterpolateExp(base, lower_zoom, upper_zoom, first_value, second_value) ==
    "interpolate_exp(get_zoom_for_scale(@map_scale), " \o PyStr(base) \o ", "
        \o ToString(lower_zoom) \o ", " \o ToString(upper_zoom) \o ", "
        \o PyStr(first_value) \o ", " \o PyStr(second_value) \o ")"

\* What parse_color returned, as a property value.
ColorValue(c) == [err |-> c.err, value |-> StrV(c.value)]

\* The value of one stop, or the resolved value: a colour is normalized.
\* Result: [err, value].
ProcessedValue(call, raw) ==
    IF call.is_color THEN ColorValue(ParseColor(raw)) ELSE [err |-> "", value |-> raw]

\* _get_property_value(obj, property_path): the value, None when a part of
\* the path is missing.  found is the test "value is not None" of line 544: a
\* value that is None in the document is treated like a missing one.
GetPropertyValue(obj, call) ==
    IF /\ call.group \in DOMAIN obj
       /\ call.name \in DOMAIN obj[call.group]
       /\ obj[call.group][call.name] # PropLit(NoneV)
    THEN [found |-> TRUE, value |-> obj[call.group][call.name]]
    ELSE [found |-> FALSE, value |-> PropLit(NoneV)]

\* One pass of the loop over stops_to_iterate (lines 557-586), first being
\* the processed value of the stop.  Result: [err, v].
StopValue(call, stops, base, k, first) ==
    IF first.err # "" THEN [err |-> first.err, v |-> NoneV]
    ELSE IF ~call.can_interpolate
    THEN [err |-> "", v |-> PropertyValue(call.name, IntV(stops[k].zoom), first.value, FALSE)]
    ELSE IF ~(stops[k].zoom \in 0..MaxZoom /\ stops[k + 1].zoom \in 0..MaxZoom)
    THEN [err |-> "KeyError", v |-> NoneV]
    ELSE [err |-> "",
          v |-> PropertyValue(call.name, IntV(stops[k].zoom),
                   StrV(InterpolateExp(base, stops[k].zoom, stops[k + 1].zoom,
                                       first.value, stops[k + 1].value)),
                   TRUE)]

\* stops_to_iterate: all stops, or all but the last when interpolating.
StopsToIterate(call, stops) ==
    IF call.can_interpolate THEN SubSeq(stops, 1, Len(stops) - 1) ELSE stops

\* The loop over the stops.
StopValues(call, stops, base) ==
    [k \in 1..Len(StopsToIterate(call, stops)) |->
        StopValue(call, stops, base, k, ProcessedValue(call, stops[k].value))]

\* The properties list after the loop over the stops.  Result: [err, values].
Collected(perStop) ==
    IF FirstError(perStop) # "" THEN [err |-> FirstError(perStop), values |-> <<>>]
    ELSE [err |-> "", values |-> [k \in 1..Len(perStop) |-> perStop[k].v]]

\* The single value without zoom level (lines 587-592).
SingleValue(call, one) ==
    IF one.err # "" THEN [err |-> one.err, values |-> <<>>]
    ELSE [err |-> "", values |-> <<PropertyValue(call.name, NoneV, one.value, FALSE)>>]

\* The base exactly as the dict gives it.
BaseAsGiven(given) == given.base

\* base = _get_value_safe(value, "base"); if not base: base = 1
BaseOf(given) == IF Truthy(given.base) THEN given.base ELSE IntV(1)

\* The resolved value when it is a dict without stops: the dict itself, and
\* parse_color fails on it (a dict has no startswith).
ProcessedDict(call, given) ==
    IF call.is_color THEN [err |-> "AttributeError", value |-> NoneV]
    ELSE [err |-> "", value |-> given]

\* get_properties_values_for_zoom after the path is resolved (lines 543-593):
\* "if stops:" is false for a dict without stops and for one whose stops are
\* empty.
ResolvedValues(call, found, given) ==
    IF found /\ given.stops # <<>>
    THEN Collected(StopValues(call, given.stops, BaseOf(given)))
    ELSE IF found /\ given.isdict
    THEN SingleValue(call, ProcessedDict(call, given))
    ELSE IF found \/ call.has_default
    THEN SingleValue(call, ProcessedValue(call, IF found THEN given.lit ELSE call.default))
    ELSE [err |-> "", values |-> <<>>]

ValuesOf(call, resolved) == ResolvedValues(call, resolved.found, resolved.value)

\* get_properties_values_for_zoom(layer, path, ...).  Result: [err, values].
GetPropertiesValuesForZoom(layer, call) ==
    IF call.is_color /\ call.can_interpolate
    THEN [err |-> "RuntimeError", values |-> <<>>]
    ELSE ValuesOf(call, GetPropertyValue(layer, call))

\* ------------------------------------------------------ layer style builder

\* d[k] = v on a dict.
SetKey(d, k, v) == [x \in DOMAIN d \cup {k} |-> IF x = k THEN v ELSE d[x]]

RECURSIVE SetAll(_, _)
\* for v in values: d[v["name"]] = v["value"]
SetAll(d, values) ==
    IF values = <<>> THEN d
    ELSE SetAll(SetKey(d, values[1].name, values[1].value), Tail(values))

RECURSIVE Flatten(_)
\* The concatenation of a sequence of sequences (all_values.extend).
Flatten(seqs) == IF seqs = <<>> THEN <<>> ELSE seqs[1] \o Flatten(Tail(seqs))

\* The resolved values of one zoom level (None: of no zoom level), in order.
SelectValues(values, zoom) ==
    SelectSeq(values, LAMBDA v : v.zoom_level = zoom)

\* min_scale_denom taken from the band's own zoom level instead of the next
\* band's: what _apply_scale_range would give if it indexed styles[index].
MinScaleDenomOwnZoom(styles, k) ==
    IF k = Len(styles) THEN 1 ELSE ScaleOfZoom(styles[k]["zoom_level"].n)

\* min_scale_denom of the band at index k (lines 503-507).
MinScaleDenom(styles, k) ==
    IF k = Len(styles) THEN 1 ELSE ScaleOfZoom(styles[k + 1]["zoom_level"].n)

\* _apply_scale_range(styles)
ApplyScaleRange(styles) ==
    [k \in 1..Len(styles) |->
        IF IsNone(styles[k]["zoom_level"]) THEN styles[k]
        ELSE SetKey(SetKey(styles[k], "min_scale_denom", IntV(MinScaleDenom(styles, k))),
                    "max_scale_denom", IntV(ScaleOfZoom(styles[k]["zoom_level"].n)))]

\* One pass of the loop over sorted(values_by_zoom.keys()): a deep copy of
\* the band before, with the zoom level and that zoom's values set.
NextBand(clone, zoom, values) ==
    SetAll(SetKey(clone, "zoom_level", IntV(zoom)), SelectValues(values, IntV(zoom)))

RECURSIVE ForwardFrom(_, _, _)
\* The bands of zooms, the first of them being given.
ForwardFrom(first, zooms, values) ==
    IF Len(zooms) <= 1 THEN <<first>>
    ELSE <<first>> \o ForwardFrom(NextBand(first, zooms[2], values), Tail(zooms), values)

\* The loop over sorted(values_by_zoom.keys()) (lines 337-344), zooms not empty.
ForwardBands(base_style, zooms, values) ==
    ForwardFrom(NextBand(base_style, zooms[1], values), zooms, values)

\* for k in s: if k not in next_style: next_style[k] = s[k]
FillFrom(next_style, s) ==
    [k \in DOMAIN next_style \cup DOMAIN s |->
        IF k \in DOMAIN next_style THEN next_style[k] ELSE s[k]]

\* A band put before the bands that are already filled.
FilledBefore(band, rest) == <<FillFrom(band, rest[1])>> \o rest

\* The bands as the forward loop leaves them: what get_styles would return
\* if the walk over the reversed bands copied nothing.
NoBackFill(bands) == bands

RECURSIVE BackFill(_)
\* The walk over reversed(resulting_styles) (lines 345-351): a key of a band
\* that the band before it lacks is copied to that band.
BackFill(bands) ==
    IF Len(bands) <= 1 THEN bands ELSE FilledBefore(bands[1], BackFill(Tail(bands)))

\* base_style with the values that have no zoom level (lines 279-282, 316-319).
BaseStyle(layer, all_values) ==
    SetAll([k \in {"zoom_level", "min_scale_denom", "max_scale_denom"}
                  \cup (IF layer["id"] # "" THEN {"name"} ELSE {}) |->
               IF k = "name" THEN StrV(layer["id"]) ELSE NoneV],
           SelectValues(all_values, NoneV))

\* values_by_zoom.keys() (lines 320-332).
ZoomKeys(layer, all_values) ==
    {all_values[k].zoom_level.n :
        k \in {j \in 1..Len(all_values) : ~IsNone(all_values[j].zoom_level)}}
    \cup (IF "minzoom" \in DOMAIN layer THEN {layer["minzoom"]} ELSE {})
    \cup (IF "maxzoom" \in DOMAIN layer THEN {layer["maxzoom"]} ELSE {})

\* resulting_styles before the scale range is applied (lines 334-353).
ResultingStyles(base_style, zoomKeys, all_values) ==
    IF zoomKeys = {} THEN <<base_style>>
    ELSE BackFill(ForwardBands(base_style, SortedSeq(zoomKeys), all_values))

\* Lines 334-356 of get_styles; a zoom outside the table is a KeyError.
StylesWith(layer, all_values, zoomKeys) ==
    IF \E z \in zoomKeys : z \notin 0..MaxZoom
    THEN [err |-> "KeyError", styles |-> <<>>]
    ELSE [err |-> "",
          styles |-> ApplyScaleRange(
                        ResultingStyles(BaseStyle(layer, all_values), zoomKeys, all_values))]

\* get_styles once all_values is collected.
FromResults(layer, results) ==
    IF FirstError(results) # "" THEN [err |-> FirstError(results), styles |-> <<>>]
    ELSE StylesWith(layer,
                    Flatten([k \in 1..Len(results) |-> results[k].values]),
                    ZoomKeys(layer, Flatten([k \in 1..Len(results) |-> results[k].values])))

\* The loop of calls that fill all_values (lines 287-314).
CallResults(layer, calls) ==
    [k \in 1..Len(calls) |-> GetPropertiesValuesForZoom(layer, calls[k])]

\* get_styles(layer).  Result: [err, styles].
GetStyles(layer) ==
    IF "id" \notin DOMAIN layer THEN [err |-> "KeyError", styles |-> <<>>]
    ELSE IF "type" \notin DOMAIN layer THEN [err |-> "RuntimeError", styles |-> <<>>]
    ELSE FromResults(layer, CallResults(layer, PropertyCalls(layer["type"])))

\* ------------------------------------------------------------------ state

VARIABLES
    layers,     \* style_json["layers"]: the document's layers, changed in place
    layers0,    \* the layers as they were when process() was first called
    pc,         \* where process() is: idle, loop, apply, layer, pass, done, raised
    i,          \* index of the layer the loop of process() is at
    cur,        \* index of the layer argument of the running _apply_source_layer call
    depth,      \* number of nested _apply_source_layer calls
    out,        \* styles_by_file_name
    made,       \* per get_styles call of process(): the layer, the file, the bands' places
    error,      \* the exception process() raised, "" if none
    call,       \* 1 during the first call of process() on the document, 2 during the second
    out1,       \* what the first call returned
    gsLayer,    \* the layer given to get_styles
    gsOut,      \* what get_styles returned: [err, styles]
    color,      \* the colour given to parse_color
    colorOut,   \* what parse_color returned: [err, value]
    mb_filter,  \* the filter given to get_qgis_rule
    ruleEscape, \* the escape_result argument of that call
    ruleOut,    \* what get_qgis_rule returned: [err, none, toks]
    propLayer,  \* the layer given to get_properties_values_for_zoom
    propCall,   \* the property path and the flags of that call
    propOut     \* what get_properties_values_for_zoom returned: [err, values]

vars == <<layers, layers0, pc, i, cur, depth, out, made, error, call, out1,
          gsLayer, gsOut, color, colorOut, mb_filter, ruleEscape, ruleOut,
          propLayer, propCall, propOut>>

\* "not called yet" for gsOut and colorOut.
NotCalled == [err |-> "not called"]

\* ------------------------------------------------------- ref inheritance

\* _get_value_safe(layer, "ref") is truthy
HasRef(layer) == "ref" \in DOMAIN layer /\ layer["ref"] # ""

\* matching_layers: the indices of the layers whose id is ref.
MatchingLayers(layer, all_layers) ==
    IF HasRef(layer)
    THEN {j \in 1..Len(all_layers) :
             "id" \in DOMAIN all_layers[j] /\ all_layers[j]["id"] = layer["ref"]}
    ELSE {}

\* The properties the loop of lines 75-77 assigns.
CopiedProps(target_layer) == DOMAIN target_layer \ {"paint"}

\* for prop in target_layer: if prop != "paint": layer[prop] = target_layer[prop]
CopyProps(layer, target_layer) ==
    [prop \in DOMAIN layer \cup CopiedProps(target_layer) |->
        IF prop \in CopiedProps(target_layer) THEN target_layer[prop] ELSE layer[prop]]

\* process(), lines 93-94: the layer has a ref, _apply_source_layer is called.
BeginApply ==
    /\ pc = "loop"
    /\ "ref" \in DOMAIN layers[i]
    /\ pc' = "apply"
    /\ cur' = i
    /\ depth' = 1
    /\ UNCHANGED <<layers, layers0, i, out, made, error, call, out1, gsLayer, gsOut, color, colorOut,
                   mb_filter, ruleEscape, ruleOut, propLayer, propCall, propOut>>

\* _apply_source_layer(layers[cur], layers) with its matching layers: it
\* copies the properties of the first and calls itself on it, or returns
\* (and with it every call above it, which has nothing left to do).
ApplyTo(matching) ==
    IF depth > RecursionLimit
    THEN /\ pc' = "raised"
         /\ error' = "RecursionError"
         /\ UNCHANGED <<layers, cur, depth>>
    ELSE IF matching # {}
    THEN /\ layers' = [layers EXCEPT ![cur] = CopyProps(layers[cur], layers[MinOf(matching)])]
         /\ cur' = MinOf(matching)
         /\ depth' = depth + 1
         /\ UNCHANGED <<pc, error>>
    ELSE /\ pc' = "layer"
         /\ depth' = 0
         /\ UNCHANGED <<layers, cur, error>>

\* One call of _apply_source_layer.
ApplySourceLayer ==
    /\ pc = "apply"
    /\ ApplyTo(MatchingLayers(layers[cur], layers))
    /\ UNCHANGED <<layers0, i, out, made, call, out1, gsLayer, gsOut, color, colorOut,
                   mb_filter, ruleEscape, ruleOut, propLayer, propCall, propOut>>

\* ------------------------------------------------------ style set compiler

\* geo_type_name of a layer type; other types are skipped.
GeoTypeName(layer_type) ==
    CASE layer_type = "fill" -> ".polygon"
      [] layer_type = "line" -> ".linestring"
      [] layer_type = "symbol" -> ""

\* "{}{}.qml".format(source_layer, geo_type_name)
FileName(source_layer, layer_type) == source_layer \o GeoTypeName(layer_type) \o ".qml"

\* An entry of styles_by_file_name: its styles list beside its other keys.
Entry(info, styles) == [info |-> info, styles |-> styles]

\* The entry of a file, made when the file has none (lines 110-111).
EntryOf(styles_by_file_name, file_name, layer_type) ==
    IF file_name \in DOMAIN styles_by_file_name
    THEN styles_by_file_name[file_name]
    ELSE Entry([k \in {"file_name", "type"} |->
                   IF k = "file_name" THEN StrV(file_name) ELSE StrV(layer_type)],
               <<>>)

\* for s in qgis_styles: s["rule"] = filter_expr
WithRule(qgis_styles, filter_expr) ==
    [k \in 1..Len(qgis_styles) |-> SetKey(qgis_styles[k], "rule", filter_expr)]

\* filter_expr (lines 113-115).
FilterExpr(l) == IF "filter" \in DOMAIN l THEN GetQgisRule(l["filter"], TRUE) ELSE NoPredicate

\* Lines 112-118: the bands of the layer are added to the file's styles.
\* Result: [err, out, made].
Extended(styles_by_file_name, log, index, file_name, before, qgis_styles, rule) ==
    IF qgis_styles.err # "" \/ rule.err # ""
    THEN [err |-> IF qgis_styles.err # "" THEN qgis_styles.err ELSE rule.err,
          out |-> styles_by_file_name, made |-> log]
    ELSE [err |-> "",
          out |-> SetKey(styles_by_file_name, file_name,
                     Entry(before.info,
                           before.styles \o WithRule(qgis_styles.styles, RuleValue(rule)))),
          made |-> Append(log, [layer |-> index, file |-> file_name,
                                first |-> Len(before.styles) + 1,
                                count |-> Len(qgis_styles.styles)])]

\* Lines 109-118 for a layer that has a file.
StylesOfLayer(l, index, styles_by_file_name, log, file_name) ==
    Extended(styles_by_file_name, log, index, file_name,
             EntryOf(styles_by_file_name, file_name, l["type"]), GetStyles(l), FilterExpr(l))

\* The pass over one layer if process() read the type with a default
\* (l.get("type")) instead of l["type"]: a layer without type is passed over.
LayerStylesTypeOptional(l, index, styles_by_file_name, log) ==
    IF \/ "source-layer" \notin DOMAIN l
       \/ "type" \notin DOMAIN l
       \/ l["source-layer"] = ""
       \/ l["type"] \notin {"fill", "line", "symbol"}
    THEN [err |-> "", out |-> styles_by_file_name, made |-> log]
    ELSE StylesOfLayer(l, index, styles_by_file_name, log,
                       FileName(l["source-layer"], l["type"]))

\* The rest of one pass of the loop over the layers (lines 95-118).
\* Result: [err, out, made].
LayerStyles(l, index, styles_by_file_name, log) ==
    IF "source-layer" \in DOMAIN l /\ "type" \notin DOMAIN l
    THEN [err |-> "KeyError", out |-> styles_by_file_name, made |-> log]
    ELSE IF \/ "source-layer" \notin DOMAIN l
            \/ l["source-layer"] = ""
            \/ l["type"] \notin {"fill", "line", "symbol"}
    THEN [err |-> "", out |-> styles_by_file_name, made |-> log]
    ELSE StylesOfLayer(l, index, styles_by_file_name, log,
                       FileName(l["source-layer"], l["type"]))

\* The loop goes on with what the pass over one layer gave.
LayerDone(r) ==
    IF r.err # ""
    THEN /\ pc' = "raised"
         /\ error' = r.err
         /\ UNCHANGED <<i, out, made>>
    ELSE /\ out' = r.out
         /\ made' = r.made
         /\ i' = i + 1
         /\ pc' = IF i = Len(layers) THEN "pass" ELSE "loop"
         /\ UNCHANGED error

\* process(), lines 95-118, for the layer the loop is at.
ProcessLayer ==
    /\ IF pc = "loop" THEN "ref" \notin DOMAIN layers[i] ELSE pc = "layer"
    /\ LayerDone(LayerStyles(layers[i], i, out, made))
    /\ UNCHANGED <<layers, layers0, cur, depth, call, out1, gsLayer, gsOut, color, colorOut,
                   mb_filter, ruleEscape, ruleOut, propLayer, propCall, propOut>>

\* The indices before index whose band has the same target as the band at
\* index (the filter of lines 126-131).
SameTarget(styles, index) ==
    {k \in 1..(index - 1) :
        /\ styles[k]["name"] # styles[index]["name"]
        /\ styles[k]["rule"] = styles[index]["rule"]
        /\ Truthy(styles[index]["zoom_level"])
        /\ styles[k]["zoom_level"].n <= styles[index]["zoom_level"].n}

\* The filter compares st["zoom_level"] <= zoom: a band without zoom level
\* that reaches the comparison with an int zoom is a TypeError.
PassRaises(styles, index) ==
    IF "name" \notin DOMAIN styles[index] THEN "KeyError"
    ELSE IF \E k \in 1..(index - 1) :
                /\ styles[k]["name"] # styles[index]["name"]
                /\ styles[k]["rule"] = styles[index]["rule"]
                /\ Truthy(styles[index]["zoom_level"])
                /\ IsNone(styles[k]["zoom_level"])
    THEN "TypeError"
    ELSE ""

\* The greatest element of a non-empty set of integers.
MaxOf(S) == CHOOSE x \in S : \A y \in S : y <= x

\* len(list(groupby(styles_with_same_target, key=name))): the number of runs
\* of equal names among the selected bands.
GroupsByName(styles, selected) ==
    Cardinality({k \in selected :
        \/ \A j \in selected : j >= k
        \/ styles[MaxOf({j \in selected : j < k})]["name"] # styles[k]["name"]})

\* style["rendering_pass"] of the band at index (line 133).
RenderingPassOf(styles, index) == GroupsByName(styles, SameTarget(styles, index))

\* The rendering passes of one file's styles (lines 121-133).
WithRenderingPass(styles) ==
    [index \in 1..Len(styles) |->
        SetKey(styles[index], "rendering_pass", IntV(RenderingPassOf(styles, index)))]

\* The names of the placeholder entries.
TransparentFiles ==
    {"transparent.point.qml", "transparent.linestring.qml", "transparent.polygon.qml"}

\* _add_default_transparency_styles
AddDefaultTransparencyStyles(style) ==
    [f \in DOMAIN style \cup TransparentFiles |->
        IF f \in TransparentFiles
        THEN Entry([k \in {"file_name", "layer-transparency", "type"} |->
                       CASE k = "file_name" -> StrV(f)
                         [] k = "layer-transparency" -> IntV(100)
                         [] k = "type" -> NoneV],
                   <<>>)
        ELSE style[f]]

\* A file put after the files before it, unless it is among them.
FileAfter(files, f) ==
    IF \E k \in 1..Len(files) : files[k] = f THEN files ELSE Append(files, f)

RECURSIVE FilesInOrder(_)
\* The files in the order process() made their entries.
FilesInOrder(log) ==
    IF log = <<>> THEN <<>>
    ELSE FileAfter(FilesInOrder(SubSeq(log, 1, Len(log) - 1)), log[Len(log)].file)

\* The exception the loop over one file's styles raises first, "" if none.
FileError(styles) == FirstError([k \in 1..Len(styles) |-> [err |-> PassRaises(styles, k)]])

\* The exception the loop over the files raises first, "" if none.
ErrorAmong(styles_by_file_name, files) ==
    FirstError([k \in 1..Len(files) |-> [err |-> FileError(styles_by_file_name[files[k]].styles)]])

\* The exception the loop of lines 120-133 raises, "" if none.
FirstPassError(styles_by_file_name, log) == ErrorAmong(styles_by_file_name, FilesInOrder(log))

\* process() returns, or raises what the loop of lines 120-133 raised.
PassDone(e) ==
    IF e # ""
    THEN /\ pc' = "raised"
         /\ error' = e
         /\ UNCHANGED out
    ELSE /\ out' = AddDefaultTransparencyStyles(
                     [f \in DOMAIN out |->
                         Entry(out[f].info, WithRenderingPass(out[f].styles))])
         /\ pc' = "done"
         /\ UNCHANGED error

\* process(), lines 120-136: the rendering passes, the placeholders, return.
RenderingPass ==
    /\ pc = "pass"
    /\ PassDone(FirstPassError(out, made))
    /\ UNCHANGED <<layers, layers0, i, cur, depth, made, call, out1, gsLayer, gsOut, color, colorOut,
                   mb_filter, ruleEscape, ruleOut, propLayer, propCall, propOut>>

\* process() is called again on the same, already parsed document.
CallAgain ==
    /\ pc = "done"
    /\ call = 1
    /\ call' = 2
    /\ out1' = out
    /\ out' = EmptyDict
    /\ made' = <<>>
    /\ i' = 1
    /\ pc' = "loop"
    /\ UNCHANGED <<layers, layers0, cur, depth, error, gsLayer, gsOut, color, colorOut,
                   mb_filter, ruleEscape, ruleOut, propLayer, propCall, propOut>>

\* ----------------------------------------------------------- the documents

\* The id of the k-th layer of a document: ids are unique.
IdOf(k) == "L" \o ToString(k)

ClassPark == Filter("==", "class", "park", <<>>)

\* What a layer holds besides its id and its ref.
Bodies ==
    { EmptyDict,
      [k \in {"source-layer"} |-> "roads"],
      ("type" :> "fill") @@ ("source-layer" :> "roads") @@ ("minzoom" :> 0),
      ("type" :> "fill") @@ ("source-layer" :> "roads") @@ ("minzoom" :> 5)
          @@ ("filter" :> ClassPark)
          @@ ("paint" :> ("fill-color" :> PropLit(HexColor(<<"a", "b", "c">>)))),
      ("type" :> "fill") @@ ("source-layer" :> "roads")
          @@ ("paint" :> ("fill-color" :> PropLit(HexColor(<<"a", "1", "b", "2", "c", "3">>)))),
      ("type" :> "line") @@ ("source-layer" :> "roads") @@ ("minzoom" :> 5) @@ ("maxzoom" :> 6)
          @@ ("paint" :> ("line-width" :> PropStops(<<Stop(5, IntV(1)), Stop(6, IntV(2))>>, NoneV))) }

\* No ref, or the id of a layer of the document.
RefChoices == {""} \cup {IdOf(k) : k \in 1..NLayers}

MakeLayer(k, body, ref) ==
    ("id" :> IdOf(k)) @@ body @@ (IF ref = "" THEN EmptyDict ELSE ("ref" :> ref))

idleStyles == gsLayer = EmptyDict /\ gsOut = NotCalled
idleColor == color = HexColor(<<>>) /\ colorOut = NotCalled
idleRule == mb_filter = EmptyDict /\ ruleEscape = FALSE /\ ruleOut = NotCalled
idleProps == propLayer = EmptyDict /\ propCall = EmptyDict /\ propOut = NotCalled

\* process() is called on a document.
Init ==
    /\ \E bodies \in [1..NLayers -> Bodies], refs \in [1..NLayers -> RefChoices] :
           layers = [k \in 1..NLayers |-> MakeLayer(k, bodies[k], refs[k])]
    /\ layers0 = layers
    /\ pc = "loop"
    /\ i = 1
    /\ cur = 0
    /\ depth = 0
    /\ out = EmptyDict
    /\ made = <<>>
    /\ error = ""
    /\ call = 1
    /\ out1 = EmptyDict
    /\ idleStyles
    /\ idleColor
    /\ idleRule
    /\ idleProps

Next == BeginApply \/ ApplySourceLayer \/ ProcessLayer \/ RenderingPass \/ CallAgain

Spec == Init /\ [][Next]_vars

\* ------------------------------------------------- process(), typed documents

\* The bodies that differ in having a type and a source-layer.
TypeBodies ==
    { EmptyDict,
      [k \in {"source-layer"} |-> "roads"],
      ("type" :> "fill") @@ ("source-layer" :> "roads") @@ ("minzoom" :> 0) }

\* process() is called on a document whose layers have or lack a type, a
\* source-layer and a ref.
InitTypes ==
    /\ \E bodies \in [1..NLayers -> TypeBodies], refs \in [1..NLayers -> RefChoices] :
           layers = [k \in 1..NLayers |-> MakeLayer(k, bodies[k], refs[k])]
    /\ layers0 = layers
    /\ pc = "loop"
    /\ i = 1
    /\ cur = 0
    /\ depth = 0
    /\ out = EmptyDict
    /\ made = <<>>
    /\ error = ""
    /\ call = 1
    /\ out1 = EmptyDict
    /\ idleStyles
    /\ idleColor
    /\ idleRule
    /\ idleProps

SpecTypes == InitTypes /\ [][Next]_vars

\* ------------------------------------------------------ get_styles, alone

\* The strictly ascending sequences of n elements of S.
Ascending(S, n) == {q \in [1..n -> S] : \A k \in 1..(n - 1) : q[k] < q[k + 1]}

\* The zoom levels of the stops of the model's layers.
StopZooms == {0, 5, 24}

\* The stops of a property: none, or up to MaxStops of ascending zoom.
StopChoices == UNION {Ascending(StopZooms, n) : n \in 0..MaxStops}

\* minzoom and maxzoom: absent (-1), or a zoom level.
ZoomChoices == {-1} \cup (0..MaxZoom)

\* A layer with the given type, zoom range and stops: a fill layer has the
\* stops on fill-opacity, a line layer on line-width (which interpolates).
StyleLayer(type, minzoom, maxzoom, zooms) ==
    ("id" :> "L1") @@ ("type" :> type) @@ ("source-layer" :> "roads")
    @@ (IF minzoom >= 0 THEN ("minzoom" :> minzoom) ELSE EmptyDict)
    @@ (IF maxzoom >= 0 THEN ("maxzoom" :> maxzoom) ELSE EmptyDict)
    @@ (IF zooms # <<>>
        THEN ("paint" :> ((IF type = "fill" THEN "fill-opacity" ELSE "line-width")
                             :> PropStops([k \in 1..Len(zooms) |-> Stop(zooms[k], IntV(k))],
                                          NoneV)))
        ELSE EmptyDict)

idleProcess ==
    /\ layers = <<>> /\ layers0 = <<>> /\ pc = "idle" /\ i = 0 /\ cur = 0 /\ depth = 0
    /\ out = EmptyDict /\ made = <<>> /\ error = "" /\ call = 0 /\ out1 = EmptyDict

\* get_styles is about to be called on a layer (a minzoom is not above the
\* maxzoom).
InitStyles ==
    /\ \E type \in {"fill", "line"}, minzoom \in ZoomChoices, maxzoom \in ZoomChoices,
          zooms \in StopChoices :
           /\ minzoom = -1 \/ maxzoom = -1 \/ minzoom <= maxzoom
           /\ gsLayer = StyleLayer(type, minzoom, maxzoom, zooms)
    /\ gsOut = NotCalled
    /\ idleProcess
    /\ idleColor
    /\ idleRule
    /\ idleProps

\* get_styles(gsLayer) is called and returns.
CallGetStyles ==
    /\ gsOut = NotCalled
    /\ gsLayer # EmptyDict
    /\ gsOut' = GetStyles(gsLayer)
    /\ UNCHANGED <<layers, layers0, pc, i, cur, depth, out, made, error, call, out1,
                   gsLayer, color, colorOut,
                   mb_filter, ruleEscape, ruleOut, propLayer, propCall, propOut>>

SpecStyles == InitStyles /\ [][CallGetStyles]_vars

\* ------------------------------------------------------ parse_color, alone

\* The digits of the model's hex colours.
HexDigits == {"0", "a", "F"}

\* The numbers of digits of the model's hex colours.
HexLengths == {2, 3, 4, 6}

\* parse_color is about to be called on a hex colour.
InitColor ==
    /\ \E n \in HexLengths : \E digits \in [1..n -> HexDigits] : color = HexColor(digits)
    /\ colorOut = NotCalled
    /\ idleProcess
    /\ idleStyles
    /\ idleRule
    /\ idleProps

\* parse_color(color) is called and returns.
CallParseColor ==
    /\ colorOut = NotCalled
    /\ color # HexColor(<<>>)
    /\ colorOut' = ParseColorExpr(color)
    /\ UNCHANGED <<layers, layers0, pc, i, cur, depth, out, made, error, call, out1,
                   gsLayer, gsOut, color,
                   mb_filter, ruleEscape, ruleOut, propLayer, propCall, propOut>>

SpecColor == InitColor /\ [][CallParseColor]_vars

\* --------------------------------------------------- get_qgis_rule, alone

\* Largest number of sub-filters of one combination filter.
MaxArgs == 2

\* The filters of the model that are no combinations.
TypeIsPolygon == Filter("==", "$type", "Polygon", <<>>)
KindNotX == Filter("!=", "kind", "x", <<>>)
ClassIn == Filter("in", "class", "", <<"a", "b", "c", "d">>)
HasName == Filter("has", "name", "", <<>>)
LeafFilters == {TypeIsPolygon, ClassPark, KindNotX, ClassIn, HasName}

\* The combination filters over the given sub-filters.
Combinations(subs) ==
    {Filter(op, "", "", args) :
        op \in DOMAIN CombiningOperators, args \in UNION {[1..n -> subs] : n \in 1..MaxArgs}}

\* The filters of the model: combinations nested up to two deep.
FilterChoices ==
    LeafFilters \cup Combinations(LeafFilters)
        \cup Combinations(LeafFilters \cup Combinations(LeafFilters))

\* get_qgis_rule is about to be called on a filter.
InitRule ==
    /\ mb_filter \in FilterChoices
    /\ ruleEscape \in BOOLEAN
    /\ ruleOut = NotCalled
    /\ idleProcess
    /\ idleStyles
    /\ idleColor
    /\ idleProps

\* get_qgis_rule(mb_filter, escape_result) is called and returns.
CallGetQgisRule ==
    /\ ruleOut = NotCalled
    /\ mb_filter # EmptyDict
    /\ ruleOut' = GetQgisRule(mb_filter, ruleEscape)
    /\ UNCHANGED <<layers, layers0, pc, i, cur, depth, out, made, error, call, out1,
                   gsLayer, gsOut, color, colorOut, mb_filter, ruleEscape,
                   propLayer, propCall, propOut>>

SpecRule == InitRule /\ [][CallGetQgisRule]_vars

\* ------------------------------------------- process(), the output files

\* Bodies that differ in source-layer name and type: two source-layer names
\* are those of the placeholder files.
FileBodies ==
    { ("type" :> "fill") @@ ("source-layer" :> "roads") @@ ("minzoom" :> 5)
          @@ ("filter" :> ClassPark),
      ("type" :> "line") @@ ("source-layer" :> "roads") @@ ("minzoom" :> 5),
      ("type" :> "symbol") @@ ("source-layer" :> "roads"),
      ("type" :> "fill") @@ ("source-layer" :> "transparent") @@ ("minzoom" :> 0),
      ("type" :> "symbol") @@ ("source-layer" :> "transparent.point"),
      ("type" :> "background") @@ ("source-layer" :> "roads") }

\* process() is called on a document whose layers differ in source-layer
\* and type.
InitFiles ==
    /\ \E bodies \in [1..NLayers -> FileBodies], refs \in [1..NLayers -> RefChoices] :
           layers = [k \in 1..NLayers |-> MakeLayer(k, bodies[k], refs[k])]
    /\ layers0 = layers
    /\ pc = "loop"
    /\ i = 1
    /\ cur = 0
    /\ depth = 0
    /\ out = EmptyDict
    /\ made = <<>>
    /\ error = ""
    /\ call = 1
    /\ out1 = EmptyDict
    /\ idleStyles
    /\ idleColor
    /\ idleRule
    /\ idleProps

SpecFiles == InitFiles /\ [][Next]_vars

\* ------------------------------------- get_styles, two zoomed properties

\* The stops of a property at the given zooms, the k-th with value first + k.
StopsAt(zooms, first) ==
    PropStops([k \in 1..Len(zooms) |-> Stop(zooms[k], IntV(first + k))], NoneV)

\* The paint of a layer with stops on two properties (none for no zooms).
TwoProperties(nameA, zoomsA, nameB, zoomsB) ==
    (IF zoomsA # <<>> THEN (nameA :> StopsAt(zoomsA, 0)) ELSE EmptyDict)
    @@ (IF zoomsB # <<>> THEN (nameB :> StopsAt(zoomsB, 10)) ELSE EmptyDict)

\* A layer with stops on two properties: fill-opacity and fill-translate for
\* a fill layer, line-width (which interpolates) and line-opacity for a line
\* layer.
BandLayer(type, minzoom, maxzoom, zoomsA, zoomsB) ==
    ("id" :> "L1") @@ ("type" :> type) @@ ("source-layer" :> "roads")
    @@ (IF minzoom >= 0 THEN ("minzoom" :> minzoom) ELSE EmptyDict)
    @@ (IF maxzoom >= 0 THEN ("maxzoom" :> maxzoom) ELSE EmptyDict)
    @@ (IF zoomsA # <<>> \/ zoomsB # <<>>
        THEN ("paint" :> (IF type = "fill"
                          THEN TwoProperties("fill-opacity", zoomsA, "fill-translate", zoomsB)
                          ELSE TwoProperties("line-width", zoomsA, "line-opacity", zoomsB)))
        ELSE EmptyDict)

\* get_styles is about to be called on a layer with two zoomed properties.
InitBands ==
    /\ \E type \in {"fill", "line"}, minzoom \in {-1, 2, 7}, maxzoom \in {-1, 9},
          zoomsA \in StopChoices, zoomsB \in StopChoices :
           gsLayer = BandLayer(type, minzoom, maxzoom, zoomsA, zoomsB)
    /\ gsOut = NotCalled
    /\ idleProcess
    /\ idleColor
    /\ idleRule
    /\ idleProps

SpecBands == InitBands /\ [][CallGetStyles]_vars

\* ------------------------------- get_properties_values_for_zoom alone

\* The property the call asks for.
PropName(is_color) == IF is_color THEN "line-color" ELSE "line-width"

\* The call: the default get_styles passes for the property, if any.
PropCallOf(is_color, can_interpolate, has_default) ==
    PropertyCall("paint", PropName(is_color), is_color, can_interpolate, has_default,
                 IF ~has_default THEN NoneV
                 ELSE IF is_color THEN RgbaColor(0, 0, 0, 0) ELSE IntV(0))

\* A layer without paint, and one whose paint has the property.
PropLayerWithout == ("id" :> "L1") @@ ("type" :> "line")
PropLayerWith(name, given) == PropLayerWithout @@ ("paint" :> (name :> given))

\* The zooms of the stops of a dict: none, or up to MaxStops in any order, of
\* levels of the scale table and the one above it.
PropStopZooms == UNION {[1..n -> StopZooms \cup {MaxZoom + 1}] : n \in 0..MaxStops}

\* The k-th stop of a dict at the given zoom.
PropStop(is_color, k, zoom) ==
    Stop(zoom, IF is_color THEN RgbaColor(k, k, k, 100) ELSE IntV(k))

\* get_properties_values_for_zoom is about to be called: the path is missing,
\* or leads to None, to a literal, or to a dict with or without stops.
InitProps ==
    /\ \E is_color, can_interpolate, has_default \in BOOLEAN :
           /\ propCall = PropCallOf(is_color, can_interpolate, has_default)
           /\ \/ propLayer = PropLayerWithout
              \/ propLayer = PropLayerWith(PropName(is_color), PropLit(NoneV))
              \/ propLayer = PropLayerWith(PropName(is_color),
                                 PropLit(IF is_color THEN RgbaColor(1, 2, 3, 50) ELSE IntV(0)))
              \/ \E zooms \in PropStopZooms, base \in {NoneV, IntV(0), IntV(2)} :
                     propLayer = PropLayerWith(PropName(is_color),
                         PropStops([k \in 1..Len(zooms) |-> PropStop(is_color, k, zooms[k])],
                                   base))
    /\ propOut = NotCalled
    /\ idleProcess
    /\ idleStyles
    /\ idleColor
    /\ idleRule

\* get_properties_values_for_zoom(propLayer, path, flags, default) is called
\* and returns or raises.
CallGetPropertiesValuesForZoom ==
    /\ propOut = NotCalled
    /\ propLayer # EmptyDict
    /\ propOut' = GetPropertiesValuesForZoom(propLayer, propCall)
    /\ UNCHANGED <<layers, layers0, pc, i, cur, depth, out, made, error, call, out1,
                   gsLayer, gsOut, color, colorOut,
                   mb_filter, ruleEscape, ruleOut, propLayer, propCall>>

SpecProps == InitProps /\ [][CallGetPropertiesValuesForZoom]_vars

\* ------------------------------------------- parse_color, match expressions

\* Largest number of (label, colour) pairs of a match expression.
MaxPairs == 2

\* The colours of a match expression.
MatchColors == {HexColor(<<"a", "b", "c">>),
                HexColor(<<"1", "1", "2", "2", "3", "3">>),
                RgbaColor(1, 2, 3, 50)}

\* [head, ["get", attr], label, colour, ..., fallback]
MatchArray(head, attr, labels, colors, fallback) ==
    <<StrItem(head), GetItem(attr)>>
    \o [k \in 1..(2 * Len(labels)) |->
           IF k % 2 = 1 THEN StrItem(labels[(k + 1) \div 2]) ELSE ColorItem(colors[k \div 2])]
    \o <<ColorItem(fallback)>>

\* parse_color is about to be called on an array: a match expression, or
\* one with its last one or two items missing, or one of another operator.
InitMatch ==
    /\ \E head \in {"match", "case"}, attr \in {"class", "@map_scale"},
          n \in 0..MaxPairs, cut \in 0..2 :
       \E labels \in [1..n -> {"a", "b"}], colors \in [1..n -> MatchColors],
          fallback \in MatchColors :
           color = ListColor(SubSeq(MatchArray(head, attr, labels, colors, fallback),
                                    1, 2 * n + 3 - cut))
    /\ colorOut = NotCalled
    /\ idleProcess
    /\ idleStyles
    /\ idleRule
    /\ idleProps

SpecMatch == InitMatch /\ [][CallParseColor]_vars

\* ------------------------------------------------------------- properties

\* The bands before index with another name, the same rule and a zoom level
\* not above the zoom level of the band at index.
EarlierSameRule(styles, index) ==
    {k \in 1..(index - 1) :
        /\ styles[k]["name"] # styles[index]["name"]
        /\ styles[k]["rule"] = styles[index]["rule"]
        /\ styles[k]["zoom_level"].n <= styles[index]["zoom_level"].n}

\* Every band of the list has a zoom level.
ZoomsKnown(styles) == \A k \in 1..Len(styles) : ~IsNone(styles[k]["zoom_level"])

\* C1: when process() has returned, the rendering_pass of every band b is the
\* number of distinct names of the bands declared before b in the same file
\* that have another name, the same rule and a zoom level <= b's zoom level
\* (stated for the files all of whose bands have a zoom level, zoom level 0
\* included).
C1_RenderingPassCountsEarlierNames ==
    pc = "done" =>
        \A f \in DOMAIN out :
            ZoomsKnown(out[f].styles) =>
                \A index \in 1..Len(out[f].styles) :
                    out[f].styles[index]["rendering_pass"] =
                        IntV(Cardinality({out[f].styles[k]["name"] :
                                             k \in EarlierSameRule(out[f].styles, index)}))

\* get_styles has returned a band sequence.
Returned == gsOut.err = ""

\* The band at index k has the scale range the table gives: its own zoom
\* level's bound as max_scale_denom, the next band's zoom level's bound (1 for
\* the last band) as min_scale_denom.
TableRange(styles, k) ==
    /\ ~IsNone(styles[k]["zoom_level"])
    /\ styles[k]["max_scale_denom"] = IntV(ScaleOfZoom(styles[k]["zoom_level"].n))
    /\ styles[k]["min_scale_denom"] =
           IF k = Len(styles) THEN IntV(1)
           ELSE IntV(ScaleOfZoom(styles[k + 1]["zoom_level"].n))

\* C2 as stated: for any layer, every band get_styles returns has
\* max_scale_denom = table[its zoom level], every band but the last has
\* min_scale_denom = table[the next band's zoom level], and the last band has
\* min_scale_denom = 1.
C2_EveryBandHasTableRange ==
    Returned => \A k \in 1..Len(gsOut.styles) : TableRange(gsOut.styles, k)

\* C2 amended: every band that has a zoom level has max_scale_denom =
\* table[its zoom level] and min_scale_denom = table[the next band's zoom
\* level], or 1 if it is the last band; the bands of a layer with a minzoom or
\* a maxzoom all have a zoom level; and a band without zoom level is the only
\* band of its sequence and has neither min_scale_denom nor max_scale_denom.
C2_BandsWithZoomHaveTableRange ==
    Returned =>
        /\ \A k \in 1..Len(gsOut.styles) :
               IF IsNone(gsOut.styles[k]["zoom_level"])
               THEN /\ Len(gsOut.styles) = 1
                    /\ IsNone(gsOut.styles[k]["min_scale_denom"])
                    /\ IsNone(gsOut.styles[k]["max_scale_denom"])
               ELSE TableRange(gsOut.styles, k)
        /\ ("minzoom" \in DOMAIN gsLayer \/ "maxzoom" \in DOMAIN gsLayer)
               => ZoomsKnown(gsOut.styles)

\* get_styles has returned three bands for a layer with stops and a minzoom,
\* the last one at zoom level 24.
C2_Witness ==
    /\ Returned
    /\ "paint" \in DOMAIN gsLayer
    /\ "minzoom" \in DOMAIN gsLayer
    /\ Len(gsOut.styles) = 3
    /\ gsOut.styles[3]["zoom_level"] = IntV(MaxZoom)

\* C3: in every band sequence get_styles returns, the zoom levels strictly
\* ascend and min_scale_denom and max_scale_denom do not increase from a band
\* to the next, a last band at zoom level 24 included.
C3_ZoomAscendsScalesDescend ==
    Returned =>
        \A k \in 1..(Len(gsOut.styles) - 1) :
            /\ gsOut.styles[k]["zoom_level"].n < gsOut.styles[k + 1]["zoom_level"].n
            /\ gsOut.styles[k]["min_scale_denom"].n >= gsOut.styles[k + 1]["min_scale_denom"].n
            /\ gsOut.styles[k]["max_scale_denom"].n >= gsOut.styles[k + 1]["max_scale_denom"].n

\* The index of the layer the ref of layer j names, 0 if there is none.
RefTarget(ls, j) ==
    IF MatchingLayers(ls[j], ls) = {} THEN 0 ELSE MinOf(MatchingLayers(ls[j], ls))

RECURSIVE RefChain(_, _, _)
\* The layers on the ref chain of layer j, followed for at most n steps.
RefChain(ls, j, n) ==
    IF n = 0 \/ RefTarget(ls, j) = 0 THEN {}
    ELSE {RefTarget(ls, j)} \cup RefChain(ls, RefTarget(ls, j), n - 1)

\* The properties a layer hands down: all but paint (and its id and ref).
Inheritable(layer) == DOMAIN layer \ {"paint", "id", "ref"}

\* The paint of a layer, none if it has none.
PaintOf(layer) == IF "paint" \in DOMAIN layer THEN <<layer["paint"]>> ELSE <<>>

\* C4: when process() has returned, every layer has the non-paint properties
\* of every layer on its ref chain (the chain of the input document, whatever
\* the order of the layers), and its own paint is as it was.
C4_InheritsFromWholeRefChain ==
    (pc = "done" /\ call = 1) =>
        \A j \in 1..Len(layers0) :
            /\ \A a \in RefChain(layers0, j, Len(layers0)) :
                   Inheritable(layers0[a]) \subseteq DOMAIN layers[j]
            /\ PaintOf(layers[j]) = PaintOf(layers0[j])

\* C5: a second call of process() on the same parsed document returns, and
\* returns what the first call returned.
C5_SecondCallReturnsTheSame ==
    (call = 2 /\ pc \in {"done", "raised"}) => (pc = "done" /\ out = out1)

\* C6: process() leaves the document it is given unchanged.
C6_DocumentUnchanged == layers = layers0

\* C7: the recursion of _apply_source_layer is bounded for every document
\* (self-references and reference cycles included), so that process() ends
\* without exhausting the call stack.
C7_RefResolutionBounded == error # "RecursionError"

\* C8 as stated: when any layer of the document has no type, wherever it is
\* and whether or not it has a source-layer, process() returns nothing.
C8_AnyUntypedLayerFails ==
    (\E k \in 1..Len(layers0) : "type" \notin DOMAIN layers0[k]) => pc # "done"

\* The layers of the document that have a source-layer, no type and no ref.
UntypedSourced ==
    {k \in 1..Len(layers0) :
        /\ "source-layer" \in DOMAIN layers0[k]
        /\ "type" \notin DOMAIN layers0[k]
        /\ "ref" \notin DOMAIN layers0[k]}

\* C8 amended: when a layer of the document has a source-layer, no type and
\* no ref, wherever it is, the loop of process() does not get past it and
\* process() returns nothing; a failure at that layer is the KeyError of the
\* missing type.
C8_UntypedSourcedLayerFails ==
    \A k \in UntypedSourced :
        /\ i <= k
        /\ pc \notin {"pass", "done"}
        /\ (pc = "raised" /\ i = k) => error = "KeyError"

\* process() has failed with a KeyError at a layer with a source-layer, no
\* type and no ref that is not the first, after it made styles for a layer
\* before it.
C8_Witness ==
    /\ pc = "raised"
    /\ error = "KeyError"
    /\ i > 1
    /\ i \in UntypedSourced
    /\ made # <<>>

\* The decimal components of the doubled digits of a 3-digit hex colour,
\* followed by the alpha 255.
ShortHexWithAlpha(digits) ==
    JoinWith(",", <<ToString(17 * HexDigitValue[digits[1]]),
                    ToString(17 * HexDigitValue[digits[2]]),
                    ToString(17 * HexDigitValue[digits[3]]), "255">>)

\* C9: parse_color returns a 6-digit hex colour as '#' and the same digits,
\* and a 3-digit hex colour '#abc' as the four components "r,g,b,a" of
\* (0xaa, 0xbb, 0xcc, 255).
C9_HexColours ==
    colorOut.err = "" =>
        /\ Len(color.digits) = 6 => colorOut.value = "#" \o Concat(color.digits)
        /\ Len(color.digits) = 3 => colorOut.value = ShortHexWithAlpha(color.digits)

\* C10: when process() has returned, the name of every band is the id that
\* the layer it was made from had in the input document, layers with a ref
\* included.
C10_BandNameIsInputId ==
    (pc = "done" /\ call = 1) =>
        \A m \in 1..Len(made) :
            \A k \in made[m].first..(made[m].first + made[m].count - 1) :
                out[made[m].file].styles[k]["name"] = StrV(layers0[made[m].layer]["id"])

\* The filter yields a predicate: it is no $type comparison and no
\* combination all of whose sub-filters yield none.
RECURSIVE YieldsPredicate(_)
YieldsPredicate(f) ==
    IF f.op \in DOMAIN CombiningOperators
    THEN \E k \in 1..Len(f.args) : YieldsPredicate(f.args[k])
    ELSE ~(f.op \in DOMAIN ComparisionOperators /\ f.attr = "$type")

RECURSIVE OperandsJoined(_, _), ExpectedRule(_)
\* The operands that remain of a combination, compiled, each in parentheses
\* for 'all' with more than one, joined by the operator's word, and prefixed
\* with 'not' for 'none'.
OperandsJoined(op, kept) ==
    (IF op = "none" THEN <<"not ">> ELSE <<>>)
    \o JoinText(<<" ", CombiningOperators[op], " ">>,
                [k \in 1..Len(kept) |->
                    IF op = "all" /\ Len(kept) > 1
                    THEN <<"(">> \o ExpectedRule(kept[k]) \o <<")">>
                    ELSE ExpectedRule(kept[k])])

\* The text a filter that yields a predicate compiles to, sub-filters that
\* yield none contributing no operand.
ExpectedRule(f) ==
    IF f.op \in DOMAIN CombiningOperators
    THEN OperandsJoined(f.op, SelectSeq(f.args, LAMBDA g : YieldsPredicate(g)))
    ELSE GetQgisRule(f, FALSE).toks

\* The text as get_qgis_rule returns it, escaped when asked for.
AsReturned(toks) == Concat(IF ruleEscape THEN EscapeXml(toks) ELSE toks)

\* C11: get_qgis_rule on a combination filter, nested or not, returns the
\* operands that yield a predicate, in order, joined by and / or / and not,
\* each in parentheses for 'all' when more than one remains, prefixed with
\* 'not' for 'none'; a sub-filter that yields no predicate (a $type
\* comparison, a combination of such) contributes no operand, so that no
\* result holds an empty operand '()' or a dangling 'not '.
C11_CombinationDropsEmptyOperands ==
    (ruleOut.err = "" /\ mb_filter.op \in DOMAIN CombiningOperators) =>
        IF YieldsPredicate(mb_filter)
        THEN ~ruleOut.none /\ Concat(ruleOut.toks) = AsReturned(ExpectedRule(mb_filter))
        ELSE ruleOut.none \/ Concat(ruleOut.toks) = ""

\* A dict without one of its keys.
Without(d, key) == [x \in DOMAIN d \ {key} |-> d[x]]

\* The layers of the input document that have no ref, a non-empty
\* source-layer and the type fill, line or symbol.
Styled ==
    {k \in 1..Len(layers0) :
        /\ "ref" \notin DOMAIN layers0[k]
        /\ "source-layer" \in DOMAIN layers0[k]
        /\ layers0[k]["source-layer"] # ""
        /\ "type" \in DOMAIN layers0[k]
        /\ layers0[k]["type"] \in {"fill", "line", "symbol"}}

\* <source-layer>.polygon.qml, <source-layer>.linestring.qml or
\* <source-layer>.qml.
TargetFile(l) ==
    l["source-layer"] \o (CASE l["type"] = "fill" -> ".polygon.qml"
                            [] l["type"] = "line" -> ".linestring.qml"
                            [] l["type"] = "symbol" -> ".qml")

\* The bands get_styles produces for the layer, with its compiled filter.
BandsWithRule(l) == WithRule(GetStyles(l).styles, RuleValue(FilterExpr(l)))

\* The bands of the layer are in the styles list, from position p on.
PlacedAt(styles, p, bands) ==
    /\ p + Len(bands) - 1 <= Len(styles)
    /\ \A j \in 1..Len(bands) : Without(styles[p + j - 1], "rendering_pass") = bands[j]

\* The bands of layer k are in the styles list of its file.
InItsFile(k) ==
    /\ TargetFile(layers0[k]) \in DOMAIN out
    /\ \E p \in 1..Len(out[TargetFile(layers0[k])].styles) :
           PlacedAt(out[TargetFile(layers0[k])].styles, p, BandsWithRule(layers0[k]))

\* The bands of layer k1 are before those of layer k2 in the same file.
InOrder(k1, k2) ==
    \E p1, p2 \in 1..Len(out[TargetFile(layers0[k1])].styles) :
        /\ PlacedAt(out[TargetFile(layers0[k1])].styles, p1, BandsWithRule(layers0[k1]))
        /\ PlacedAt(out[TargetFile(layers0[k1])].styles, p2, BandsWithRule(layers0[k2]))
        /\ p1 + Len(BandsWithRule(layers0[k1])) <= p2

\* C12: when process() has returned, the bands get_styles produces for a
\* layer with a non-empty source-layer and the type fill, line or symbol are
\* in the styles list of <source-layer>.polygon.qml, .linestring.qml or .qml,
\* with the layer's compiled filter as rule and in the order of the layers;
\* and the three transparent.* entries are there with empty styles lists.
\* This for every source-layer name (stated for the layers without ref).
C12_BandsInTheirFile ==
    (pc = "done" /\ call = 1) =>
        /\ \A k \in Styled : InItsFile(k)
        /\ \A k1, k2 \in Styled :
               (k1 < k2 /\ TargetFile(layers0[k1]) = TargetFile(layers0[k2])) => InOrder(k1, k2)
        /\ \A f \in TransparentFiles : f \in DOMAIN out /\ out[f].styles = <<>>

\* The values get_properties_values_for_zoom resolves for the layer that
\* have a zoom level.
ZoomedValues(layer) ==
    SelectSeq(Flatten([k \in 1..Len(PropertyCalls(layer["type"])) |->
                          GetPropertiesValuesForZoom(layer, PropertyCalls(layer["type"])[k]).values]),
              LAMBDA v : ~IsNone(v.zoom_level))

\* The zoom levels at which the property has a value.
ZoomsOf(values, name) ==
    {values[k].zoom_level.n : k \in {j \in 1..Len(values) : values[j].name = name}}

\* The zoom level whose value of the property a band at zoom z carries: the
\* highest one not above z, or else the lowest one above z.
SourceZoom(zooms, z) ==
    IF \E x \in zooms : x <= z THEN MaxOf({x \in zooms : x <= z}) ELSE MinOf(zooms)

\* The value of the property at the zoom level.
ValueAt(values, name, zoom) ==
    values[CHOOSE k \in 1..Len(values) :
               values[k].name = name /\ values[k].zoom_level = IntV(zoom)].value

\* The band carries, for every zoomed property, the value of its source zoom.
CarriesAll(band, values) ==
    \A k \in 1..Len(values) :
        /\ values[k].name \in DOMAIN band
        /\ band[values[k].name] =
               ValueAt(values, values[k].name,
                       SourceZoom(ZoomsOf(values, values[k].name), band["zoom_level"].n))

\* C13: in the bands get_styles returns, every property that has a value at
\* some zoom level is in every band: a band at or above a zoom level of the
\* property carries the value of the nearest such level at or below it (the
\* value is kept until a band overrides it), a band below all of them carries
\* the value of the lowest one (back-filled from the nearest higher band); so
\* all bands of a layer have the same property names.
C13_BandsShareProperties ==
    Returned =>
        /\ \A k \in 1..Len(gsOut.styles) : CarriesAll(gsOut.styles[k], ZoomedValues(gsLayer))
        /\ \A j, k \in 1..Len(gsOut.styles) : DOMAIN gsOut.styles[j] = DOMAIN gsOut.styles[k]

\* get_styles has returned bands of which the first is below both zoom levels
\* of some property (it is back-filled) and another lies between the two (it
\* keeps the value of the lower one).
C13_Witness ==
    /\ Returned
    /\ \E k \in 1..Len(ZoomedValues(gsLayer)) :
           /\ Cardinality(ZoomsOf(ZoomedValues(gsLayer), ZoomedValues(gsLayer)[k].name)) = 2
           /\ gsOut.styles[1]["zoom_level"].n
                  < MinOf(ZoomsOf(ZoomedValues(gsLayer), ZoomedValues(gsLayer)[k].name))
           /\ \E j \in 1..Len(gsOut.styles) :
                  /\ gsOut.styles[j]["zoom_level"].n
                         > MinOf(ZoomsOf(ZoomedValues(gsLayer), ZoomedValues(gsLayer)[k].name))
                  /\ gsOut.styles[j]["zoom_level"].n
                         < MaxOf(ZoomsOf(ZoomedValues(gsLayer), ZoomedValues(gsLayer)[k].name))

\* The path of the call leads to a value that is not None.
Resolved ==
    /\ "paint" \in DOMAIN propLayer
    /\ propCall.name \in DOMAIN propLayer["paint"]
    /\ propLayer["paint"][propCall.name] # PropLit(NoneV)

\* The stops of the resolved value, none when there is no such value.
GivenStops == IF Resolved THEN propLayer["paint"][propCall.name].stops ELSE <<>>

\* The base interpolation uses: 1 when the dict has none or has 0.
ExpectedBase ==
    IF propLayer["paint"][propCall.name].base \in {NoneV, IntV(0)} THEN "1"
    ELSE ToString(propLayer["paint"][propCall.name].base.n)

\* The expression interpolating between two stops.
ExpectedInterpolation(lower, upper) ==
    StrV("interpolate_exp(get_zoom_for_scale(@map_scale), " \o ExpectedBase \o ", "
         \o ToString(lower.zoom) \o ", " \o ToString(upper.zoom) \o ", "
         \o ToString(lower.value.n) \o ", " \o ToString(upper.value.n) \o ")")

\* The k-th returned value is at the zoom of the k-th stop.
AtStop(k) ==
    /\ propOut.values[k].name = propCall.name
    /\ propOut.values[k].zoom_level = IntV(GivenStops[k].zoom)

\* The call raised: the flags exclude each other, a stop to interpolate is
\* outside the scale table, or a colour is a dict without stops.
MayRaise ==
    \/ propCall.is_color /\ propCall.can_interpolate
    \/ propCall.can_interpolate /\ Len(GivenStops) > 1
           /\ \E k \in 1..Len(GivenStops) : GivenStops[k].zoom > MaxZoom
    \/ propCall.is_color /\ Resolved /\ GivenStops = <<>>
           /\ propLayer["paint"][propCall.name].isdict

IsMatch == color.fmt = "list" /\ color.items[1].s = "match"

\* Number of (label, colour) pairs of the array.
Pairs == (Len(color.items) - 3) \div 2

\* The null-safe equality comparison of the attribute against the k-th label.
NullSafeEquals(k) ==
    LET attr == IF color.items[2].s = "@map_scale" THEN "@map_scale"
                ELSE "\"" \o color.items[2].s \o "\""
    IN  attr \o " is not null and " \o attr \o " = '" \o color.items[2 * k + 1].s \o "'"

\* The conditional of the k-th pair around an else-branch.
Conditional(k, else_branch) ==
    "if (" \o NullSafeEquals(k) \o ", '" \o ParseColor(color.items[2 * k + 2].c).value
           \o "', " \o else_branch \o ")"

RECURSIVE WrappedIn(_, _)
\* inner wrapped in the conditionals of the pairs k, k-1, ..., 1.
WrappedIn(k, inner) == IF k = 0 THEN inner ELSE WrappedIn(k - 1, Conditional(k, inner))

\* The array has an odd number of items, at least 5, the last one a colour.
WellFormed ==
    /\ Len(color.items) >= 4
    /\ Len(color.items) % 2 = 1
    /\ color.items[Len(color.items)].kind = "color"

\* C15: parse_color on a match expression of k >= 1 (label, colour) pairs and
\* a fallback returns k nested conditionals: the one of the first label is
\* outermost, the else-branch of each is the conditional of the next label,
\* the innermost else-branch is the normalized fallback colour, and each
\* condition compares the attribute null-safely for equality with the label.
\* On an array of even length or of fewer than 4 items it raises an
\* AssertionError.
C15_MatchNestsConditionals ==
    (IsMatch /\ colorOut # NotCalled) =>
        /\ (Len(color.items) < 4 \/ Len(color.items) % 2 = 0)
               => colorOut.err = "AssertionError"
        /\ WellFormed =>
               /\ colorOut.err = ""
               /\ colorOut.value
                      = WrappedIn(Pairs, "'" \o ParseColor(color.items[Len(color.items)].c).value
                                             \o "'")

\* parse_color has returned for a match expression of two pairs.
C15_Witness ==
    /\ IsMatch
    /\ WellFormed
    /\ Pairs = 2
    /\ color.items[3].s # color.items[5].s
    /\ colorOut.err = ""

====
